---- MODULE Spec2Model ----
(***************************************************************************)
(* Model of the conversation store of backend/src/agent/database.py        *)
(* (class ConversationDatabase over SQLite).  Every store operation opens   *)
(* its own connection; the two tables, the sqlite_sequence counter of the  *)
(* AUTOINCREMENT key and the write lock of the database file are the       *)
(* shared state.  add_message is the only operation with more than one     *)
(* statement, so it is modelled statement by statement; the other          *)
(* operations are one statement and a commit.                              *)
(***************************************************************************)
EXTENDS Integers, Sequences, FiniteSets, TLC

(* ------------------------------ bounds --------------------------------- *)
\* the wall clock counts sub-second ticks 0..MaxClock
MaxClock == 2
\* ticks in one second: CURRENT_TIMESTAMP has second resolution,
\* datetime.now() a finer one
TicksPerSecond == 2
\* at most MaxMsgs message rows are ever inserted
MaxMsgs == 2
\* LIMIT arguments tried by get_all_conversations: 0..MaxLimit
MaxLimit == 2

ConvIds == {"c1", "c2"}
Titles == {"t1", "t2"}
Roles == {"human"}
Workers == {1, 2}
NoWorker == 0

(* --------------------------- json codec -------------------------------- *)
\* A metadata document is a set of <<key, value>> members with distinct
\* keys; a value is a string or a number, written [t, v].
JStr(s) == [t |-> "str", v |-> s]
JNum(s) == [t |-> "num", v |-> s]
EmptyDoc == {}
Docs == { EmptyDoc, {<<"k", JStr("v")>>, <<"n", JNum("3")>>} }
\* Optional[Dict]: <<>> is None, <<d>> is the dict d
OptDocs == {<<>>} \cup { <<d>> : d \in Docs }
\* the <<title, metadata>> arguments tried by create_conversation
CreateInputs == { <<"t1", <<>>>>, <<"t1", <<EmptyDoc>>>>,
                  <<"t2", <<{<<"k", JStr("v")>>, <<"n", JNum("3")>>}>>>> }
KeyOrder == <<"k", "n">>

Punct(c) == [t |-> "punct", v |-> c]

\* `metadata or {}`
OrEmpty(md) == IF md = <<>> THEN EmptyDoc ELSE md[1]

RECURSIVE DumpMembers(_, _)
DumpMembers(d, i) ==
  IF i > Len(KeyOrder) THEN <<>>
  ELSE LET here == { m \in d : m[1] = KeyOrder[i] }
           rest == DumpMembers(d, i + 1)
       IN IF here = {} THEN rest
          ELSE LET m == CHOOSE m \in here : TRUE
                   one == <<JStr(m[1]), Punct(":"), m[2]>>
               IN IF rest = <<>> THEN one ELSE one \o <<Punct(",")>> \o rest

\* (variant: the document is dropped)
json_dumps_nometa(d) == <<Punct("{"), Punct("}")>>
\* json.dumps: the document as text, a sequence of tokens
json_dumps(d) == <<Punct("{")>> \o DumpMembers(d, 1) \o <<Punct("}")>>

RECURSIVE ParseMembers(_, _, _)
ParseMembers(text, i, acc) ==
  IF i > Len(text) THEN acc
  ELSE IF text[i].t = "punct" THEN ParseMembers(text, i + 1, acc)
  ELSE \* a key token, then ":", then the value token
       ParseMembers(text, i + 3, acc \cup {<<text[i].v, text[i + 2]>>})

\* json.loads of a text produced by json.dumps
json_loads(text) == ParseMembers(text, 1, {})

\* `json.loads(row["metadata"]) if row["metadata"] else {}`
LoadMetadata(text) == IF text = <<>> THEN EmptyDoc ELSE json_loads(text)

(* ----------------------------- clock ----------------------------------- *)
\* SQLite's CURRENT_TIMESTAMP at clock reading t: 'YYYY-MM-DD HH:MM:SS'
CURRENT_TIMESTAMP(t) == [fmt |-> "sql", sec |-> t \div TicksPerSecond]
\* datetime.now().isoformat() at t: 'YYYY-MM-DDTHH:MM:SS.ffffff'
isoformat(t) == [fmt |-> "iso", sec |-> t \div TicksPerSecond,
                 frac |-> t % TicksPerSecond]

(* ----------------------------- state ----------------------------------- *)
VARIABLES
  conversations,  \* committed rows of table conversations
  messages,       \* committed rows of table messages
  seq,            \* sqlite_sequence entry of messages (largest id ever used)
  lock,           \* the connection holding the write lock, or NoWorker
  txn,            \* per worker: the open add_message transaction
  clock,          \* wall clock in ticks
  added,          \* the id and conversation of every record add_message returned
  tables,         \* the tables and indexes that exist in the database file
  ret             \* what the last completed write returned

vars == <<conversations, messages, seq, lock, txn, clock, added, tables, ret>>

Idle == [pc |-> "idle"]

Init ==
  /\ conversations = {}
  /\ messages = {}
  /\ seq = 0
  /\ lock = NoWorker
  /\ txn = [w \in Workers |-> Idle]
  /\ clock = 0
  /\ added = <<>>
  /\ tables = {}
  /\ ret = [op |-> "none", ok |-> TRUE, val |-> <<>>]

(* ------------------------------ _init_db ------------------------------- *)
\* the two tables and the index the CREATE statements name
SchemaObjects == {"conversations", "messages", "idx_conversation_id"}

\* a statement on a table that does not exist raises OperationalError
HasSchema == {"conversations", "messages"} \subseteq tables

\* (variant: DROP TABLE IF EXISTS, then CREATE TABLE)
CreateTable_dropfirst(name, rows) == {}
\* CREATE TABLE IF NOT EXISTS name: an existing table keeps its rows, a
\* missing one is created empty
CreateTableIfNotExists(name, rows) == IF name \in tables THEN rows ELSE {}

\* the three CREATE ... IF NOT EXISTS statements and the commit; returns None
_init_db ==
  /\ conversations' = CreateTableIfNotExists("conversations", conversations)
  /\ messages' = CreateTableIfNotExists("messages", messages)
  /\ tables' = tables \cup SchemaObjects
  /\ ret' = [op |-> "_init_db", ok |-> TRUE, val |-> <<>>]
  /\ UNCHANGED <<seq, lock, txn, clock, added>>

Exists(cid) == \E c \in conversations : c.id = cid
Row(cid) == CHOOSE c \in conversations : c.id = cid

\* the wall clock advances
Tick ==
  /\ clock < MaxClock
  /\ clock' = clock + 1
  /\ UNCHANGED <<conversations, messages, seq, lock, txn, added, tables, ret>>

\* the clock readings a later datetime.now() of the same call may give
Later == { t \in clock..MaxClock : t <= clock + 1 }

\* (variant: no lock is taken)
WriteLockFree_nolock == TRUE
\* the write lock is free for a connection's first write statement; while it
\* is not, the statement waits in SQLite's busy handler
WriteLockFree == lock = NoWorker

(* ------------------------ create_conversation -------------------------- *)
\* INSERT INTO conversations (id, title, metadata): both timestamp columns
\* take DEFAULT CURRENT_TIMESTAMP, evaluated once for the statement
InsertConversation(cid, title, md) ==
  conversations \cup
    {[id |-> cid, title |-> title,
      created_at |-> CURRENT_TIMESTAMP(clock),
      updated_at |-> CURRENT_TIMESTAMP(clock),
      metadata |-> json_dumps(OrEmpty(md))]}

\* the returned record reads datetime.now() twice, after the commit
CreateReturn(cid, title, md, t1, t2) ==
  [id |-> cid, title |-> title, created_at |-> isoformat(t1),
   updated_at |-> isoformat(t2), metadata |-> OrEmpty(md)]

\* (variant: INSERT OR REPLACE)
create_conversation_replace(cid, title, md) ==
  \/ /\ HasSchema
     /\ WriteLockFree
     /\ conversations' =
          { c \in conversations : c.id # cid } \cup
          {[id |-> cid, title |-> title,
            created_at |-> CURRENT_TIMESTAMP(clock),
            updated_at |-> CURRENT_TIMESTAMP(clock),
            metadata |-> json_dumps(OrEmpty(md))]}
     /\ \E t2 \in Later :
          /\ clock' = t2
          /\ ret' = [op |-> "create_conversation", ok |-> TRUE,
                     val |-> CreateReturn(cid, title, md, clock, t2)]
     /\ UNCHANGED <<messages, seq, lock, txn, added, tables>>
create_conversation(cid, title, md) ==
  \/ /\ HasSchema
     /\ WriteLockFree
     /\ Exists(cid)
     \* PRIMARY KEY violation: sqlite3.IntegrityError, the with-block rolls back
     /\ ret' = [op |-> "create_conversation", ok |-> FALSE,
                val |-> "IntegrityError"]
     /\ UNCHANGED <<conversations, messages, seq, lock, txn, clock, added, tables>>
  \/ /\ HasSchema
     /\ WriteLockFree
     /\ ~Exists(cid)
     /\ conversations' = InsertConversation(cid, title, md)
     /\ \E t2 \in Later :
          /\ clock' = t2
          /\ ret' = [op |-> "create_conversation", ok |-> TRUE,
                     val |-> CreateReturn(cid, title, md, clock, t2)]
     /\ UNCHANGED <<messages, seq, lock, txn, added, tables>>

(* -------------------------- get_conversation --------------------------- *)
\* SELECT * FROM conversations WHERE id = ?; <<>> is None
GetConversation(cid) ==
  IF Exists(cid)
  THEN LET row == Row(cid) IN
       <<[id |-> row.id, title |-> row.title,
          created_at |-> row.created_at, updated_at |-> row.updated_at,
          metadata |-> LoadMetadata(row.metadata)]>>
  ELSE <<>>

\* a read opens its own connection and sees the committed rows; it changes
\* nothing, and it returns the operator's value
get_conversation(cid) ==
  /\ HasSchema
  /\ Len(GetConversation(cid)) <= 1
  /\ UNCHANGED vars

(* ------------------------ get_all_conversations ------------------------ *)
\* FROM conversations c LEFT JOIN messages m ON c.id = m.conversation_id:
\* one joined row per matching message, and one with a NULL message side
\* (<<>>) for a conversation that has none
LeftJoin ==
  { [c |-> p[1], m |-> <<p[2]>>] :
      p \in { q \in conversations \X messages :
                q[1].id = q[2].conversation_id } }
  \cup
  { [c |-> c, m |-> <<>>] :
      c \in { d \in conversations :
                ~\E m \in messages : d.id = m.conversation_id } }

\* (variant: COUNT(*))
MessageCount_star(c) == Cardinality({ j \in LeftJoin : j.c = c })
\* COUNT(m.id) over the group of c: the joined rows whose m.id is not NULL
MessageCount(c) == Cardinality({ j \in LeftJoin : j.c = c /\ j.m # <<>> })

\* (variant: ASC)
RecentFirst_asc(a, b) == a.updated_at.sec <= b.updated_at.sec
\* ORDER BY c.updated_at DESC (the text order of 'YYYY-MM-DD HH:MM:SS' is
\* the order of the instants); rows with equal keys come in any order
RecentFirst(a, b) == a.updated_at.sec >= b.updated_at.sec

\* the sequences that list every element of S once
RECURSIVE Perms(_)
Perms(S) ==
  IF S = {} THEN {<<>>}
  ELSE UNION { { <<x>> \o p : p \in Perms(S \ {x}) } : x \in S }

\* LIMIT ?
Limit(s, limit) ==
  IF limit < 0 \/ limit >= Len(s) THEN s ELSE SubSeq(s, 1, limit)

ListRecord(c) ==
  [id |-> c.id, title |-> c.title, created_at |-> c.created_at,
   updated_at |-> c.updated_at, message_count |-> MessageCount(c),
   metadata |-> LoadMetadata(c.metadata)]

\* the results the query may produce
GetAllConversations(limit) ==
  { [i \in 1..Len(Limit(s, limit)) |-> ListRecord(s[i])] :
      s \in { p \in Perms(conversations) :
                \A i, j \in 1..Len(p) : i < j => RecentFirst(p[i], p[j]) } }

\* returns any one of them
get_all_conversations(limit) ==
  /\ HasSchema
  /\ GetAllConversations(limit) # {}
  /\ UNCHANGED vars

(* ----------------------------- add_message ----------------------------- *)
\* INTEGER PRIMARY KEY AUTOINCREMENT: one more than the largest id ever used
NextRowid == seq + 1

\* the row the INSERT of worker w's transaction holds
PendingRow(w) ==
  [id |-> txn[w].id, conversation_id |-> txn[w].cid, role |-> txn[w].role,
   content |-> "hi", timestamp |-> txn[w].timestamp,
   metadata |-> json_dumps(OrEmpty(txn[w].metadata))]

\* (variant: ids numbered per conversation)
add_message_insert_perconversation(w, cid, role, md) ==
  /\ HasSchema
  /\ txn[w].pc = "idle"
  /\ seq < MaxMsgs
  /\ WriteLockFree
  /\ lock' = w
  /\ txn' = [txn EXCEPT ![w] =
       [pc |-> "update", cid |-> cid, role |-> role, metadata |-> md,
        id |-> Cardinality({ m \in messages : m.conversation_id = cid }) + 1,
        timestamp |-> CURRENT_TIMESTAMP(clock)]]
  /\ UNCHANGED <<conversations, messages, seq, clock, added, tables, ret>>
\* (variant: a connection in autocommit mode, the row is committed at once)
add_message_insert_autocommit(w, cid, role, md) ==
  /\ HasSchema
  /\ txn[w].pc = "idle"
  /\ seq < MaxMsgs
  /\ WriteLockFree
  /\ lock' = w
  /\ txn' = [txn EXCEPT ![w] = [pc |-> "update", cid |-> cid, role |-> role,
                                metadata |-> md, id |-> NextRowid,
                                timestamp |-> CURRENT_TIMESTAMP(clock)]]
  /\ messages' = messages \cup
       {[id |-> NextRowid, conversation_id |-> cid, role |-> role,
         content |-> "hi", timestamp |-> CURRENT_TIMESTAMP(clock),
         metadata |-> json_dumps(OrEmpty(md))]}
  /\ UNCHANGED <<conversations, seq, clock, added, tables, ret>>
\* INSERT INTO messages: opens the transaction, takes the write lock and
\* evaluates DEFAULT CURRENT_TIMESTAMP; the row stays in the transaction
add_message_insert(w, cid, role, md) ==
  /\ HasSchema
  /\ txn[w].pc = "idle"
  /\ seq < MaxMsgs
  /\ WriteLockFree
  /\ lock' = w
  /\ txn' = [txn EXCEPT ![w] = [pc |-> "update", cid |-> cid, role |-> role,
                                metadata |-> md, id |-> NextRowid,
                                timestamp |-> CURRENT_TIMESTAMP(clock)]]
  /\ UNCHANGED <<conversations, messages, seq, clock, added, tables, ret>>

\* UPDATE conversations SET updated_at = CURRENT_TIMESTAMP WHERE id = ?:
\* a second statement, with its own reading of the clock
add_message_update(w) ==
  /\ txn[w].pc = "update"
  /\ txn' = [txn EXCEPT ![w] = [pc |-> "commit", cid |-> txn[w].cid,
                                role |-> txn[w].role,
                                metadata |-> txn[w].metadata, id |-> txn[w].id,
                                timestamp |-> txn[w].timestamp,
                                updated_at |-> CURRENT_TIMESTAMP(clock)]]
  /\ UNCHANGED <<conversations, messages, seq, lock, clock, added, tables, ret>>

\* (variant: an upsert, a missing conversation is created)
Touched_upsert(cid, ts) ==
  IF Exists(cid)
  THEN { IF c.id = cid THEN [c EXCEPT !.updated_at = ts] ELSE c :
           c \in conversations }
  ELSE conversations \cup
         {[id |-> cid, title |-> "t1", created_at |-> ts, updated_at |-> ts,
           metadata |-> json_dumps(EmptyDoc)]}
\* the conversations table after the transaction's UPDATE
Touched(cid, ts) ==
  { IF c.id = cid THEN [c EXCEPT !.updated_at = ts] ELSE c :
      c \in conversations }

\* the returned record, with its own datetime.now()
AddReturn(w, t) ==
  [id |-> txn[w].id, conversation_id |-> txn[w].cid, role |-> txn[w].role,
   content |-> "hi", timestamp |-> isoformat(t),
   metadata |-> OrEmpty(txn[w].metadata)]

\* conn.commit() and the return
add_message_commit(w) ==
  /\ txn[w].pc = "commit"
  /\ messages' = messages \cup {PendingRow(w)}
  /\ seq' = txn[w].id
  /\ conversations' = Touched(txn[w].cid, txn[w].updated_at)
  /\ lock' = NoWorker
  /\ txn' = [txn EXCEPT ![w] = Idle]
  /\ \E t \in Later :
       /\ clock' = t
       /\ ret' = [op |-> "add_message", ok |-> TRUE, val |-> AddReturn(w, t)]
       /\ added' = Append(added, [id |-> AddReturn(w, t).id,
                                  cid |-> txn[w].cid])
  /\ UNCHANGED tables

\* a storage fault after the INSERT and before the commit has completed:
\* the with-block rolls the transaction back and the exception propagates
add_message_fail(w) ==
  /\ txn[w].pc \in {"update", "commit"}
  /\ lock' = NoWorker
  /\ txn' = [txn EXCEPT ![w] = Idle]
  /\ ret' = [op |-> "add_message", ok |-> FALSE, val |-> "OperationalError"]
  /\ UNCHANGED <<conversations, messages, seq, clock, added, tables>>

(* ----------------------------- get_messages ---------------------------- *)
\* ORDER BY timestamp ASC: no second key, rows with equal timestamps come
\* in any order
ByTimestamp(a, b) == a.timestamp.sec <= b.timestamp.sec

MessageRecord(m) ==
  [id |-> m.id, conversation_id |-> m.conversation_id, role |-> m.role,
   content |-> m.content, timestamp |-> m.timestamp,
   metadata |-> LoadMetadata(m.metadata)]

\* the results SELECT * FROM messages WHERE conversation_id = ? may produce
GetMessages(cid) ==
  { [i \in 1..Len(p) |-> MessageRecord(p[i])] :
      p \in { q \in Perms({ m \in messages : m.conversation_id = cid }) :
                \A i, j \in 1..Len(q) : i < j => ByTimestamp(q[i], q[j]) } }

\* returns any one of them
get_messages(cid) ==
  /\ HasSchema
  /\ GetMessages(cid) # {}
  /\ UNCHANGED vars

(* -------------------------- delete_conversation ------------------------ *)
\* the connection never issues PRAGMA foreign_keys = ON, so SQLite does not
\* enforce the FOREIGN KEY ... ON DELETE CASCADE clause of messages
ForeignKeysEnforced == FALSE

\* (variant: returns rowcount >= 0)
delete_conversation_anycount(cid) ==
  \/ /\ HasSchema
     /\ WriteLockFree
     /\ conversations' = { c \in conversations : c.id # cid }
     /\ messages' = messages
     /\ ret' = [op |-> "delete_conversation", ok |-> TRUE, val |-> TRUE]
     /\ UNCHANGED <<seq, lock, txn, clock, added, tables>>
\* DELETE FROM conversations WHERE id = ?; returns rowcount > 0
delete_conversation(cid) ==
  \/ /\ HasSchema
     /\ WriteLockFree
     /\ conversations' = { c \in conversations : c.id # cid }
     /\ messages' = IF ForeignKeysEnforced
                    THEN { m \in messages : m.conversation_id # cid }
                    ELSE messages
     /\ ret' = [op |-> "delete_conversation", ok |-> TRUE,
                val |-> Exists(cid)]
     /\ UNCHANGED <<seq, lock, txn, clock, added, tables>>

(* ----------------------- update_conversation_title --------------------- *)
\* (variant: INSERT ... ON CONFLICT DO UPDATE, a missing row is created)
update_conversation_title_upsert(cid, title) ==
  \/ /\ HasSchema
     /\ WriteLockFree
     /\ conversations' =
          IF Exists(cid)
          THEN { IF c.id = cid
                 THEN [c EXCEPT !.title = title,
                                !.updated_at = CURRENT_TIMESTAMP(clock)]
                 ELSE c : c \in conversations }
          ELSE InsertConversation(cid, title, <<>>)
     /\ ret' = [op |-> "update_conversation_title", ok |-> TRUE,
                val |-> TRUE]
     /\ UNCHANGED <<messages, seq, lock, txn, clock, added, tables>>
\* UPDATE conversations SET title = ?, updated_at = CURRENT_TIMESTAMP
\* WHERE id = ?; returns rowcount > 0
update_conversation_title(cid, title) ==
  \/ /\ HasSchema
     /\ WriteLockFree
     /\ conversations' =
          { IF c.id = cid
            THEN [c EXCEPT !.title = title,
                           !.updated_at = CURRENT_TIMESTAMP(clock)]
            ELSE c : c \in conversations }
     /\ ret' = [op |-> "update_conversation_title", ok |-> TRUE,
                val |-> Exists(cid)]
     /\ UNCHANGED <<messages, seq, lock, txn, clock, added, tables>>

Next ==
  \/ Tick
  \/ \E cid \in ConvIds, in \in CreateInputs :
       create_conversation(cid, in[1], in[2])
  \/ \E cid \in ConvIds : get_conversation(cid)
  \/ \E limit \in 0..MaxLimit : get_all_conversations(limit)
  \/ _init_db
  \/ \E w \in Workers, cid \in ConvIds, role \in Roles :
       add_message_insert(w, cid, role, <<>>)
  \/ \E w \in Workers : add_message_update(w)
  \/ \E w \in Workers : add_message_commit(w)
  \/ \E w \in Workers : add_message_fail(w)
  \/ \E cid \in ConvIds : get_messages(cid)
  \/ \E cid \in ConvIds : delete_conversation(cid)
  \/ \E cid \in ConvIds, title \in Titles : update_conversation_title(cid, title)

Spec == Init /\ [][Next]_vars

\* the store used as its callers are expected to use it: add_message is
\* called for conversations that exist only
NextCallerChecks ==
  \/ Tick
  \/ _init_db
  \/ \E cid \in ConvIds, in \in CreateInputs :
       create_conversation(cid, in[1], in[2])
  \/ \E cid \in ConvIds : get_conversation(cid)
  \/ \E limit \in 0..MaxLimit : get_all_conversations(limit)
  \/ \E w \in Workers, cid \in ConvIds, role \in Roles :
       Exists(cid) /\ add_message_insert(w, cid, role, <<>>)
  \/ \E w \in Workers : add_message_update(w)
  \/ \E w \in Workers : add_message_commit(w)
  \/ \E w \in Workers : add_message_fail(w)
  \/ \E cid \in ConvIds : get_messages(cid)
  \/ \E cid \in ConvIds : delete_conversation(cid)
  \/ \E cid \in ConvIds, title \in Titles : update_conversation_title(cid, title)

SpecCallerChecks == Init /\ [][NextCallerChecks]_vars

(* ----------------------------- HTTP layer ------------------------------ *)
\* POST /api/conversation/{id}/message, first store call:
\* db.get_conversation(id), and HTTPException(404) when it returns None
add_message_to_conversation_check(w, cid) ==
  /\ HasSchema
  /\ txn[w].pc = "idle"
  /\ seq < MaxMsgs
  /\ IF Exists(cid)
     THEN /\ txn' = [txn EXCEPT ![w] = [pc |-> "checked", cid |-> cid]]
          /\ UNCHANGED ret
     ELSE /\ ret' = [op |-> "add_message_to_conversation", ok |-> FALSE,
                     val |-> "HTTPException"]
          /\ UNCHANGED txn
  /\ UNCHANGED <<conversations, messages, seq, lock, clock, added, tables>>

\* second store call: db.add_message(id, ...), in a connection of its own;
\* its INSERT opens the transaction that add_message_update and
\* add_message_commit complete
add_message_to_conversation_add(w, role, md) ==
  /\ txn[w].pc = "checked"
  /\ seq < MaxMsgs
  /\ WriteLockFree
  /\ lock' = w
  /\ txn' = [txn EXCEPT ![w] = [pc |-> "update", cid |-> txn[w].cid,
                                role |-> role, metadata |-> md,
                                id |-> NextRowid,
                                timestamp |-> CURRENT_TIMESTAMP(clock)]]
  /\ UNCHANGED <<conversations, messages, seq, clock, added, tables, ret>>

\* the routes of app.py: lifespan runs _init_db; POST /api/conversation
\* creates under a fresh uuid4; the other handlers pass their arguments to
\* the store method of the same name
NextHttp ==
  \/ Tick
  \/ _init_db
  \/ \E cid \in ConvIds, in \in CreateInputs :
       ~Exists(cid) /\ create_conversation(cid, in[1], in[2])
  \/ \E cid \in ConvIds : get_conversation(cid)
  \/ \E limit \in 0..MaxLimit : get_all_conversations(limit)
  \/ \E w \in Workers, cid \in ConvIds : add_message_to_conversation_check(w, cid)
  \/ \E w \in Workers, role \in Roles :
       add_message_to_conversation_add(w, role, <<>>)
  \/ \E w \in Workers : add_message_update(w)
  \/ \E w \in Workers : add_message_commit(w)
  \/ \E w \in Workers : add_message_fail(w)
  \/ \E cid \in ConvIds : Exists(cid) /\ get_messages(cid)
  \/ \E cid \in ConvIds : delete_conversation(cid)
  \/ \E cid \in ConvIds, title \in Titles : update_conversation_title(cid, title)

SpecHttp == Init /\ [][NextHttp]_vars

(* ------------------------------ claims --------------------------------- *)
MessagesOf(cid) == { m \in messages : m.conversation_id = cid }
Min(a, b) == IF a <= b THEN a ELSE b

\* C1: after delete_conversation(cid) has removed an existing conversation,
\* no message of cid remains: get_messages(cid) returns the empty sequence
\* and no listing contains cid.
C1_DeleteCascades ==
  [][\A cid \in ConvIds :
       (Exists(cid) /\ delete_conversation(cid)) =>
         /\ GetMessages(cid)' = {<<>>}
         /\ \A limit \in 0..MaxLimit : \A rows \in GetAllConversations(limit)' :
              \A i \in 1..Len(rows) : rows[i].id # cid]_vars

\* C2: add_message is all-or-nothing.  The row of an open transaction is in
\* no committed table any read sees; a commit makes the row and the refresh
\* of the parent's updated_at visible in one step; a failure after the
\* INSERT leaves both tables and the id counter as they were; and a message
\* row appears by a commit only.
C2_AddMessageAtomic ==
  [][/\ \A w \in Workers :
          txn[w].pc # "idle" => \A m \in messages : m.id # txn[w].id
     /\ \A w \in Workers :
          add_message_commit(w) =>
            /\ messages' = messages \cup {PendingRow(w)}
            /\ \A c \in conversations' :
                 c.id = txn[w].cid => c.updated_at = txn[w].updated_at
     /\ \A w \in Workers :
          add_message_fail(w) =>
            /\ messages' = messages
            /\ conversations' = conversations
            /\ seq' = seq
     /\ messages' # messages => \E w \in Workers : add_message_commit(w)]_vars

\* an add_message has failed after its INSERT and nothing of it is stored
C2_Witness ==
  /\ ret.op = "add_message"
  /\ ~ret.ok
  /\ messages = {}
  /\ Exists("c1")

\* C3: concurrent add_message calls lose no write: each conversation holds
\* exactly one row per call that has returned, the returned ids are pairwise
\* distinct, and each is the id of the row its call inserted.
C3_NoLostWrites ==
  /\ \A cid \in ConvIds :
       Cardinality(MessagesOf(cid)) =
         Cardinality({ i \in 1..Len(added) : added[i].cid = cid })
  /\ \A i, j \in 1..Len(added) : i # j => added[i].id # added[j].id
  /\ \A i \in 1..Len(added) :
       \E m \in MessagesOf(added[i].cid) :
         m.id = added[i].id

\* two calls have added a message to the same conversation
C3_Witness ==
  /\ Len(added) = 2
  /\ added[1].cid = added[2].cid

\* C4: get_messages returns the rows in insertion order (id ascending), also
\* when several rows share a timestamp.
C4_InsertionOrder ==
  \A cid \in ConvIds : \A rows \in GetMessages(cid) :
    \A i, j \in 1..Len(rows) : i < j => rows[i].id < rows[j].id

\* C5: create_conversation with an id in use fails with the duplicate-key
\* fault and leaves both tables unchanged; the table never holds two rows
\* with one id.
C5_DuplicateKey ==
  [][/\ \A cid \in ConvIds : \A in \in CreateInputs :
          (Exists(cid) /\ create_conversation(cid, in[1], in[2])) =>
            /\ ~ret'.ok
            /\ ret'.val = "IntegrityError"
            /\ conversations' = conversations
            /\ messages' = messages
     /\ \A c, d \in conversations' : c.id = d.id => c = d]_vars

\* a create_conversation has failed on an id in use
C5_Witness ==
  /\ ret.op = "create_conversation"
  /\ ~ret.ok
  /\ conversations # {}

\* C6: get_conversation(id) right after create_conversation(id, t, m) on a
\* new id returns title t, metadata m (the empty document for None) and an
\* updated_at equal to created_at.
C6_CreateThenGet ==
  [][\A cid \in ConvIds : \A in \in CreateInputs :
       (~Exists(cid) /\ create_conversation(cid, in[1], in[2])) =>
         LET got == GetConversation(cid)' IN
         /\ Len(got) = 1
         /\ got[1].title = in[1]
         /\ got[1].metadata = (IF in[2] = <<>> THEN {} ELSE in[2][1])
         /\ got[1].updated_at = got[1].created_at]_vars

\* a conversation was just created with a non-empty metadata document
C6_Witness ==
  /\ ret.op = "create_conversation"
  /\ ret.ok
  /\ ret.val.metadata # {}
  /\ Exists(ret.val.id)

\* C7: the created_at and updated_at of the record create_conversation
\* returns are the stored ones, those get_conversation returns right after.
C7_ReturnsPersisted ==
  (ret.op = "create_conversation" /\ ret.ok) =>
    LET got == GetConversation(ret.val.id) IN
    /\ Len(got) = 1
    /\ ret.val.created_at = got[1].created_at
    /\ ret.val.updated_at = got[1].updated_at

\* C8: after add_message on an existing conversation, with no later write,
\* the conversation's updated_at is the stored timestamp of that message.
C8_UpdatedAtIsMessageTimestamp ==
  (ret.op = "add_message" /\ ret.ok /\ Exists(ret.val.conversation_id)) =>
    \A m \in messages :
      m.id = ret.val.id =>
        GetConversation(ret.val.conversation_id)[1].updated_at = m.timestamp

\* C9: for limit >= 0, get_all_conversations(limit) returns
\* min(limit, number of conversations) distinct conversations, sorted by
\* updated_at descending, none older than a conversation left out.
C9_ListTopByUpdatedAt ==
  \A limit \in 0..MaxLimit : \A rows \in GetAllConversations(limit) :
    /\ Len(rows) = Min(limit, Cardinality(conversations))
    /\ \A i, j \in 1..Len(rows) :
         /\ i < j => rows[i].updated_at.sec >= rows[j].updated_at.sec
         /\ i # j => rows[i].id # rows[j].id
    /\ \A i \in 1..Len(rows) : \A c \in conversations :
         (\A j \in 1..Len(rows) : rows[j].id # c.id) =>
           rows[i].updated_at.sec >= c.updated_at.sec

\* two conversations with different updated_at are stored
C9_Witness ==
  \E c, d \in conversations : c.updated_at.sec < d.updated_at.sec

\* C10: every listed record carries the number of messages get_messages
\* returns for it, and a conversation without messages is listed, with 0.
C10_MessageCount ==
  /\ \A limit \in 0..MaxLimit : \A rows \in GetAllConversations(limit) :
       \A i \in 1..Len(rows) : \A msgs \in GetMessages(rows[i].id) :
         rows[i].message_count = Len(msgs)
  /\ \A c \in conversations : \A rows \in GetAllConversations(Cardinality(conversations)) :
       \E i \in 1..Len(rows) : rows[i].id = c.id

\* a conversation with messages and one without are stored
C10_Witness ==
  \E c, d \in conversations : MessagesOf(c.id) = {} /\ MessagesOf(d.id) # {}

\* C11: update_conversation_title(id, title) returns true exactly when a
\* conversation with that id exists, and get_conversation(id) then shows the
\* new title; for a missing id it returns false, creates no row and leaves
\* every conversation and message unchanged.
C11_UpdateTitle ==
  [][\A cid \in ConvIds : \A title \in Titles :
       update_conversation_title(cid, title) =>
         /\ ret'.ok
         /\ ret'.val = Exists(cid)
         /\ Exists(cid) =>
              /\ Len(GetConversation(cid)') = 1
              /\ GetConversation(cid)'[1].title = title
              /\ \A c \in conversations : c.id # cid => c \in conversations'
         /\ ~Exists(cid) => conversations' = conversations
         /\ messages' = messages]_vars

\* update_conversation_title has returned false for a missing id while
\* another conversation is stored
C11_Witness ==
  /\ ret.op = "update_conversation_title"
  /\ ~ret.val
  /\ conversations # {}

\* C12: delete_conversation(id) returns true exactly when the conversation
\* existed and false otherwise, without raising; afterwards the id is absent,
\* only create_conversation(id) brings it back, and a delete of an absent id
\* changes nothing.
C12_DeleteReturn ==
  [][/\ \A cid \in ConvIds :
          delete_conversation(cid) =>
            /\ ret'.ok
            /\ ret'.val = Exists(cid)
            /\ ~Exists(cid)'
            /\ ~Exists(cid) =>
                 /\ conversations' = conversations
                 /\ messages' = messages
     /\ \A cid \in ConvIds :
          (~Exists(cid) /\ Exists(cid)') =>
            \E in \in CreateInputs : create_conversation(cid, in[1], in[2])]_vars

\* delete_conversation has returned false although messages of a deleted
\* conversation are stored
C12_Witness ==
  /\ ret.op = "delete_conversation"
  /\ ~ret.val
  /\ messages # {}
  /\ conversations = {}

\* C13: _init_db is idempotent.  Called at any point on a store that already
\* has its tables, it leaves every conversation row, every message row and
\* the id counter unchanged, and every read returns afterwards what it
\* returned before.
C13_InitIdempotent ==
  [][(HasSchema /\ _init_db) =>
       /\ conversations' = conversations
       /\ messages' = messages
       /\ seq' = seq
       /\ tables' = tables
       /\ \A cid \in ConvIds :
            /\ GetConversation(cid)' = GetConversation(cid)
            /\ GetMessages(cid)' = GetMessages(cid)
       /\ \A limit \in 0..MaxLimit :
            GetAllConversations(limit)' = GetAllConversations(limit)]_vars

\* _init_db has run on a store that holds conversations and messages
C13_Witness ==
  /\ ret.op = "_init_db"
  /\ conversations # {}
  /\ \E c \in conversations : MessagesOf(c.id) # {}

\* C14: message ids are unique across all conversations and strictly
\* increasing in commit order: every record add_message returned has an id
\* greater than the id of every record returned before it, for whatever
\* conversation and whether or not that conversation has been deleted since;
\* no two stored rows share an id, and no stored id exceeds the counter the
\* next id is taken from.
C14_IdsIncrease ==
  /\ \A i, j \in 1..Len(added) : i < j => added[i].id < added[j].id
  /\ \A m1, m2 \in messages : m1.id = m2.id => m1 = m2
  /\ \A m \in messages : m.id <= seq
  /\ \A i \in 1..Len(added) : added[i].id <= seq

\* two messages were added to different conversations and the first one's
\* conversation has been deleted
C14_Witness ==
  /\ Len(added) = 2
  /\ added[1].cid # added[2].cid
  /\ ~Exists(added[1].cid)
  /\ Exists(added[2].cid)

\* C15: the add-message handler never leaves a message attached to a
\* conversation that does not exist: whenever the add_message it calls after
\* its existence check commits, the conversation of the new row exists, also
\* when a delete request ran between the check and the insert.
C15_HandlerNoOrphan ==
  [][\A w \in Workers :
       add_message_commit(w) =>
         \E c \in conversations' : c.id = txn[w].cid]_vars

\* C16: with concurrent add_message calls on one conversation the final
\* updated_at is the one written by the call that commits last.  At a commit
\* no other call holds an UPDATE it has yet to commit, the conversation's
\* updated_at becomes the value the committing call wrote, and that value is
\* not older than the one it replaces.
C16_LastCommitWins ==
  [][\A w \in Workers :
       add_message_commit(w) =>
         /\ \A v \in Workers \ {w} : txn[v].pc \notin {"update", "commit"}
         /\ \A c \in conversations :
              c.id = txn[w].cid =>
                \E d \in conversations' :
                  /\ d.id = c.id
                  /\ d.updated_at = txn[w].updated_at
                  /\ d.updated_at.sec >= c.updated_at.sec]_vars

\* two calls on one conversation have committed at different seconds and the
\* conversation carries the later one
C16_Witness ==
  /\ Len(added) = 2
  /\ added[1].cid = added[2].cid
  /\ Exists(added[1].cid)
  /\ \E m1, m2 \in MessagesOf(added[1].cid) :
       /\ m1.id = added[1].id
       /\ m2.id = added[2].id
       /\ m1.timestamp.sec < m2.timestamp.sec
       /\ Row(added[1].cid).updated_at.sec = m2.timestamp.sec

\* C17: add_message does not verify the parent.  When the call commits for a
\* conversation id that has no row, it succeeds: the message row is stored,
\* the returned record carries the row's id and that conversation id, no
\* conversation row is created and no conversation changes.
C17_NoParentCheck ==
  [][\A w \in Workers :
       (add_message_commit(w) /\ ~Exists(txn[w].cid)) =>
         /\ ret'.op = "add_message"
         /\ ret'.ok
         /\ ret'.val.id = txn[w].id
         /\ ret'.val.conversation_id = txn[w].cid
         /\ PendingRow(w) \in messages'
         /\ conversations' = conversations]_vars

\* add_message has returned a record for an id that has no conversation
\* row, while another conversation is stored
C17_Witness ==
  /\ ret.op = "add_message"
  /\ ret.ok
  /\ ~Exists(ret.val.conversation_id)
  /\ conversations # {}
  /\ \E m \in messages : m.id = ret.val.id

\* C18: a conversation starts empty.  Right after a successful
\* create_conversation(cid), whatever happened before, get_messages(cid)
\* returns the empty sequence and every listing that shows cid reports
\* message_count 0 for it.
C18_StartsEmpty ==
  [][\A cid \in ConvIds : \A in \in CreateInputs :
       (~Exists(cid) /\ create_conversation(cid, in[1], in[2])) =>
         /\ GetMessages(cid)' = {<<>>}
         /\ \A limit \in 0..MaxLimit : \A rows \in GetAllConversations(limit)' :
              \A i \in 1..Len(rows) :
                rows[i].id = cid => rows[i].message_count = 0]_vars

\* C19: under the non-decreasing clock, for every conversation row and every
\* step that keeps the row: created_at keeps its value, updated_at does not
\* decrease; and in every state updated_at is not earlier than created_at.
C19_Timestamps ==
  [][/\ \A c \in conversations : c.updated_at.sec >= c.created_at.sec
     /\ \A c \in conversations : \A d \in conversations' :
          d.id = c.id =>
            /\ d.created_at = c.created_at
            /\ d.updated_at.sec >= c.updated_at.sec
            /\ d.updated_at.sec >= d.created_at.sec]_vars

\* a conversation whose updated_at has moved past its created_at, after a
\* title update and a message append
C19_Witness ==
  \E c \in conversations :
    /\ c.updated_at.sec > c.created_at.sec
    /\ c.title = "t2"
    /\ MessagesOf(c.id) # {}
====
